---- MODULE Spec2Model ----
(***************************************************************************)
(* A model of tika/unpack.py: the escape pair _csv_encode / _csv_decode,   *)
(* the CSV wrapper _wrapped_csv and the archive decoder _parse.            *)
(*                                                                         *)
(* Text is a sequence of code points (integers), a byte string a sequence  *)
(* of integers 0..255.  A call of the module is either _parse(tarOutput)   *)
(* or the escape pair applied to a string; Init chooses the call and its   *)
(* argument, the actions follow the code line by line.                     *)
(***************************************************************************)
EXTENDS Integers, Sequences, FiniteSets, TLC

VARIABLES
    pc,            \* position in the running call
    tarOutput,     \* argument of _parse: None, or the (status, response) pair
    tarFile,       \* the tarfile.TarFile of line 94: "none", "open" or "closed"
    memberNames,   \* the working list of member names (line 97)
    metadataReader,\* lines of __METADATA__ the csv reader has not consumed yet
    metadata,      \* the metadata dict (line 100)
    content,       \* the content text (line 120)
    attachments,   \* the attachments dict (line 132)
    idx,           \* position of the attachment loop in memberNames (line 133)
    parsed,        \* the dict _parse returns (line 88)
    exc,           \* the exception that left the call, "none" when there is none
    x,             \* argument of _csv_encode
    escaped,       \* _csv_encode(x)
    unescaped      \* _csv_decode(escaped), as [ok, val]

vars == <<pc, tarOutput, tarFile, memberNames, metadataReader, metadata, content,
          attachments, idx, parsed, exc, x, escaped, unescaped>>

parseVars == <<tarOutput, tarFile, memberNames, metadataReader, metadata, content,
               attachments, idx, parsed, exc>>

codecVars == <<x, escaped, unescaped>>

(***************************************************************************)
(* Bounds of the model.                                                    *)
(***************************************************************************)
MaxStrLen == 3      \* longest argument of _csv_encode
MaxMetaLen == 4     \* longest __METADATA__ content enumerated exhaustively
MaxMembers == 3     \* most members of an enumerated archive

(***************************************************************************)
(* Code points the model names.                                            *)
(***************************************************************************)
Ch == [nul |-> 0, tab |-> 9, lf |-> 10, cr |-> 13, quote |-> 34, comma |-> 44,
       backslash |-> 92, a |-> 97, b |-> 98, c |-> 99, d |-> 100, h |-> 104,
       n |-> 110, x |-> 120, zero |-> 48, eacute |-> 233, ethiopic |-> 4660]

RECURSIVE Pow(_, _)
Pow(base, e) == IF e = 0 THEN 1 ELSE base * Pow(base, e - 1)

RECURSIVE Flatten(_)
Flatten(ss) == IF ss = <<>> THEN <<>> ELSE Head(ss) \o Flatten(Tail(ss))

RECURSIVE StringsUpTo(_, _)
StringsUpTo(alphabet, len) ==
    IF len = 0 THEN {<<>>}
    ELSE LET shorter == StringsUpTo(alphabet, len - 1)
         IN  shorter \cup {Append(s, c) : s \in shorter, c \in alphabet}

EmptyDict == [k \in {} |-> 0]

DictSet(dict, key, value) ==
    [k \in (DOMAIN dict) \cup {key} |-> IF k = key THEN value ELSE dict[k]]

(***************************************************************************)
(* _csv_encode (line 37): str.encode('unicode-escape').decode('ascii').    *)
(***************************************************************************)
HexChar(v) == IF v < 10 THEN 48 + v ELSE 87 + v

HexDigits(v, n) == [i \in 1..n |-> HexChar((v \div Pow(16, n - i)) % 16)]

\* EscapeChar without the doubling of the backslash
EscapeChar_PlainBackslash(ch) ==
    IF ch >= 65536 THEN <<Ch.backslash, 85>> \o HexDigits(ch, 8)
    ELSE IF ch >= 256 THEN <<Ch.backslash, 117>> \o HexDigits(ch, 4)
    ELSE IF ch >= 32 /\ ch < 127 THEN <<ch>>
    ELSE IF ch = Ch.tab THEN <<Ch.backslash, 116>>
    ELSE IF ch = Ch.lf THEN <<Ch.backslash, Ch.n>>
    ELSE IF ch = Ch.cr THEN <<Ch.backslash, 114>>
    ELSE <<Ch.backslash, Ch.x>> \o HexDigits(ch, 2)

EscapeChar(ch) ==
    IF ch >= 65536 THEN <<Ch.backslash, 85>> \o HexDigits(ch, 8)
    ELSE IF ch >= 256 THEN <<Ch.backslash, 117>> \o HexDigits(ch, 4)
    ELSE IF ch = Ch.backslash THEN <<Ch.backslash, Ch.backslash>>
    ELSE IF ch >= 32 /\ ch < 127 THEN <<ch>>
    ELSE IF ch = Ch.tab THEN <<Ch.backslash, 116>>
    ELSE IF ch = Ch.lf THEN <<Ch.backslash, Ch.n>>
    ELSE IF ch = Ch.cr THEN <<Ch.backslash, 114>>
    ELSE <<Ch.backslash, Ch.x>> \o HexDigits(ch, 2)

csv_encode(s) == Flatten([i \in 1..Len(s) |-> EscapeChar(s[i])])

(***************************************************************************)
(* _csv_decode (line 38): str.encode('ascii').decode('unicode-escape').    *)
(* The result is [ok, val]: ok is FALSE when the codec raises.             *)
(***************************************************************************)
IsHex(ch) == (ch >= 48 /\ ch <= 57) \/ (ch >= 97 /\ ch <= 102) \/ (ch >= 65 /\ ch <= 70)

HexVal(ch) == IF ch <= 57 THEN ch - 48 ELSE IF ch >= 97 THEN ch - 87 ELSE ch - 55

IsOct(ch) == ch >= 48 /\ ch <= 55

RECURSIVE HexValue(_, _, _)
HexValue(s, i, n) ==
    IF n = 0 THEN 0 ELSE HexValue(s, i, n - 1) * 16 + HexVal(s[i + n - 1])

AllHex(s, i, n) == i + n - 1 <= Len(s) /\ \A j \in i..(i + n - 1) : IsHex(s[j])

\* the number of octal digits (1 to 3) of the escape whose first digit is s[i]
OctLen(s, i) ==
    IF i + 1 <= Len(s) /\ IsOct(s[i + 1])
    THEN IF i + 2 <= Len(s) /\ IsOct(s[i + 2]) THEN 3 ELSE 2
    ELSE 1

RECURSIVE OctValue(_, _, _)
OctValue(s, i, n) ==
    IF n = 0 THEN 0 ELSE OctValue(s, i, n - 1) * 8 + (s[i + n - 1] - 48)

SimpleEscapes ==
    (Ch.backslash :> Ch.backslash) @@ (39 :> 39) @@ (Ch.quote :> Ch.quote) @@
    (Ch.b :> 8) @@ (102 :> 12) @@ (116 :> Ch.tab) @@ (Ch.n :> Ch.lf) @@
    (114 :> Ch.cr) @@ (118 :> 11) @@ (Ch.a :> 7)

RECURSIVE UnescapeFrom(_, _, _)
UnescapeFrom(s, i, acc) ==
    IF i > Len(s) THEN [ok |-> TRUE, val |-> acc]
    ELSE IF s[i] > 127 THEN [ok |-> FALSE, val |-> acc]            \* encode('ascii')
    ELSE IF s[i] # Ch.backslash THEN UnescapeFrom(s, i + 1, Append(acc, s[i]))
    ELSE IF i = Len(s) THEN [ok |-> FALSE, val |-> acc]          \* \ at end of string
    ELSE LET e == s[i + 1] IN
         IF e = Ch.lf THEN UnescapeFrom(s, i + 2, acc)
         ELSE IF e \in DOMAIN SimpleEscapes
              THEN UnescapeFrom(s, i + 2, Append(acc, SimpleEscapes[e]))
         ELSE IF IsOct(e)
              THEN LET k == OctLen(s, i + 1)
                   IN  UnescapeFrom(s, i + 1 + k, Append(acc, OctValue(s, i + 1, k)))
         ELSE IF e \in {Ch.x, 117, 85}
              THEN LET k == IF e = Ch.x THEN 2 ELSE IF e = 117 THEN 4 ELSE 8
                   IN  IF AllHex(s, i + 2, k) /\ HexValue(s, i + 2, k) <= 1114111
                       THEN UnescapeFrom(s, i + 2 + k, Append(acc, HexValue(s, i + 2, k)))
                       ELSE [ok |-> FALSE, val |-> acc]          \* truncated \xXX escape
         ELSE IF e = 78 THEN [ok |-> FALSE, val |-> acc]         \* \N{...}: not modelled
         ELSE UnescapeFrom(s, i + 2, acc \o <<Ch.backslash, e>>) \* unknown escape is kept

csv_decode(s) == UnescapeFrom(s, 1, <<>>)

(***************************************************************************)
(* csv.reader with the excel dialect (line 51): delimiter ',', quotechar   *)
(* '"', doublequote, no escapechar, not strict.  The reader is fed one     *)
(* line at a time and sees the pseudo character EOL after each line.       *)
(***************************************************************************)
EOL == -1

IsNewline(c) == c \in {Ch.lf, Ch.cr}

ResetReader == [state |-> "START_RECORD", fields |-> <<>>, field |-> <<>>]

SaveField(r, state) ==
    [state |-> state, fields |-> Append(r.fields, r.field), field |-> <<>>]

AddChar(r, c, state) ==
    [state |-> state, fields |-> r.fields, field |-> Append(r.field, c)]

AfterLineEnd(c) == IF c = EOL THEN "START_RECORD" ELSE "EAT_CRNL"

StartField(r, c) ==
    IF c = EOL \/ IsNewline(c) THEN SaveField(r, AfterLineEnd(c))
    ELSE IF c = Ch.quote THEN [r EXCEPT !.state = "IN_QUOTED_FIELD"]
    ELSE IF c = Ch.comma THEN SaveField(r, "START_FIELD")
    ELSE AddChar(r, c, "IN_FIELD")

ProcessChar(r, c) ==
    IF r.state = "ERROR" THEN r
    ELSE IF c = Ch.nul THEN [r EXCEPT !.state = "ERROR"]  \* line contains NUL
    ELSE IF r.state = "START_RECORD" THEN
        IF c = EOL THEN r
        ELSE IF IsNewline(c) THEN [r EXCEPT !.state = "EAT_CRNL"]
        ELSE StartField(r, c)
    ELSE IF r.state = "START_FIELD" THEN StartField(r, c)
    ELSE IF r.state = "IN_FIELD" THEN
        IF c = EOL \/ IsNewline(c) THEN SaveField(r, AfterLineEnd(c))
        ELSE IF c = Ch.comma THEN SaveField(r, "START_FIELD")
        ELSE AddChar(r, c, "IN_FIELD")
    ELSE IF r.state = "IN_QUOTED_FIELD" THEN
        IF c = EOL THEN r
        ELSE IF c = Ch.quote THEN [r EXCEPT !.state = "QUOTE_IN_QUOTED_FIELD"]
        ELSE AddChar(r, c, "IN_QUOTED_FIELD")
    ELSE IF r.state = "QUOTE_IN_QUOTED_FIELD" THEN
        IF c = EOL \/ IsNewline(c) THEN SaveField(r, AfterLineEnd(c))
        ELSE IF c = Ch.quote THEN AddChar(r, c, "IN_QUOTED_FIELD")
        ELSE IF c = Ch.comma THEN SaveField(r, "START_FIELD")
        ELSE AddChar(r, c, "IN_FIELD")
    ELSE \* EAT_CRNL
        IF c = EOL THEN [r EXCEPT !.state = "START_RECORD"]
        ELSE IF IsNewline(c) THEN r
        ELSE [r EXCEPT !.state = "ERROR"]      \* new-line character seen in unquoted field

RECURSIVE ProcessLine(_, _, _)
ProcessLine(r, line, i) ==
    IF i > Len(line) THEN ProcessChar(r, EOL)
    ELSE ProcessLine(ProcessChar(r, line[i]), line, i + 1)

(***************************************************************************)
(* One next() of csv.reader over _escape_strs (lines 47-52): lines are     *)
(* escaped as they are pulled, and pulled until a record is complete.      *)
(***************************************************************************)
RECURSIVE ReadRecord(_, _)
ReadRecord(r, lines) ==
    IF lines = <<>> THEN
        IF Len(r.field) # 0 \/ r.state = "IN_QUOTED_FIELD"
        THEN [kind |-> "row", row |-> Append(r.fields, r.field), rest |-> <<>>]
        ELSE [kind |-> "stop", row |-> <<>>, rest |-> <<>>]
    ELSE LET r2 == ProcessLine(r, csv_encode(Head(lines)), 1) IN
         IF r2.state = "ERROR" THEN [kind |-> "error", row |-> <<>>, rest |-> Tail(lines)]
         ELSE IF r2.state = "START_RECORD"
              THEN [kind |-> "row", row |-> r2.fields, rest |-> Tail(lines)]
         ELSE ReadRecord(r2, Tail(lines))

(***************************************************************************)
(* _wrapped_csv (lines 46-55): the next row with every field unescaped.    *)
(* kind is "row", "stop" (the reader is exhausted) or "error".             *)
(***************************************************************************)
wrapped_csv(lines) ==
    LET rec == ReadRecord(ResetReader, lines)
        dec == [i \in 1..Len(rec.row) |-> csv_decode(rec.row[i])]
    IN  IF rec.kind # "row" THEN rec
        ELSE IF \E i \in 1..Len(dec) : ~dec[i].ok
             THEN [kind |-> "error", row |-> <<>>, rest |-> rec.rest]
        ELSE [kind |-> "row", row |-> [i \in 1..Len(dec) |-> dec[i].val], rest |-> rec.rest]

(***************************************************************************)
(* _text_wrapper (line 29): io.TextIOWrapper with universal newlines.      *)
(* "\r\n" and "\r" are read as "\n"; iteration yields the lines with       *)
(* their terminator.                                                       *)
(***************************************************************************)
RECURSIVE TranslateNewlines(_)
TranslateNewlines(t) ==
    IF t = <<>> THEN <<>>
    ELSE IF Head(t) = Ch.cr
         THEN IF Len(t) >= 2 /\ t[2] = Ch.lf
              THEN <<Ch.lf>> \o TranslateNewlines(Tail(Tail(t)))
              ELSE <<Ch.lf>> \o TranslateNewlines(Tail(t))
    ELSE <<Head(t)>> \o TranslateNewlines(Tail(t))

RECURSIVE SplitLines(_, _)
SplitLines(t, line) ==
    IF t = <<>> THEN (IF line = <<>> THEN <<>> ELSE <<line>>)
    ELSE IF Head(t) = Ch.lf THEN <<Append(line, Ch.lf)>> \o SplitLines(Tail(t), <<>>)
    ELSE SplitLines(Tail(t), Append(line, Head(t)))

\* the lines of a member opened in text mode; the model's __METADATA__ bytes
\* are ASCII, which every locale encoding decodes to the same code points
TextLines(bytes) == SplitLines(TranslateNewlines(bytes), <<>>)

(***************************************************************************)
(* bytes.decode('utf8'), strict (lines 127 and 129): [ok, val].            *)
(***************************************************************************)
IsCont(bytes, i) == i <= Len(bytes) /\ bytes[i] >= 128 /\ bytes[i] <= 191

RECURSIVE Utf8From(_, _, _)
Utf8From(bytes, i, acc) ==
    IF i > Len(bytes) THEN [ok |-> TRUE, val |-> acc]
    ELSE LET b0 == bytes[i] IN
         IF b0 < 128 THEN Utf8From(bytes, i + 1, Append(acc, b0))
         ELSE IF b0 >= 194 /\ b0 <= 223 /\ IsCont(bytes, i + 1)
              THEN Utf8From(bytes, i + 2,
                            Append(acc, (b0 - 192) * 64 + (bytes[i + 1] - 128)))
         ELSE IF /\ b0 >= 224 /\ b0 <= 239
                 /\ IsCont(bytes, i + 1) /\ IsCont(bytes, i + 2)
                 /\ (b0 = 224 => bytes[i + 1] >= 160)
                 /\ (b0 = 237 => bytes[i + 1] <= 159)
              THEN Utf8From(bytes, i + 3,
                            Append(acc, (b0 - 224) * 4096 + (bytes[i + 1] - 128) * 64
                                        + (bytes[i + 2] - 128)))
         ELSE IF /\ b0 >= 240 /\ b0 <= 244
                 /\ IsCont(bytes, i + 1) /\ IsCont(bytes, i + 2) /\ IsCont(bytes, i + 3)
                 /\ (b0 = 240 => bytes[i + 1] >= 144)
                 /\ (b0 = 244 => bytes[i + 1] <= 143)
              THEN Utf8From(bytes, i + 4,
                            Append(acc, (b0 - 240) * 262144 + (bytes[i + 1] - 128) * 4096
                                        + (bytes[i + 2] - 128) * 64 + (bytes[i + 3] - 128)))
         ELSE [ok |-> FALSE, val |-> acc]

Utf8Decode(bytes) == Utf8From(bytes, 1, <<>>)

\* TextIOWrapper(..., encoding='utf8').read() (line 127)
ReadText(bytes) ==
    LET d == Utf8Decode(bytes)
    IN  [ok |-> d.ok, val |-> TranslateNewlines(d.val)]

(***************************************************************************)
(* tarfile: the archive is the sequence of its members, each a record      *)
(* [name, type, data]; "tail" says how the byte stream ends.               *)
(*   "eof"       the end-of-archive blocks                                 *)
(*   "garbage"   bytes that are no tar header                              *)
(*   "truncated" the stream stops inside the last member's data            *)
(***************************************************************************)
METADATA == "__METADATA__"

TEXT == "__TEXT__"

\* tarfile.open (line 94) raises ReadError when the first header is invalid
OpenFails(out) == out.tail = "garbage" /\ out.members = <<>>

\* TarFile.getnames (line 97) loads every header: it raises ReadError on a
\* member whose data is cut short, and stops silently at an invalid header
GetNamesFails(out) == out.tail = "truncated"

getnames(out) == [i \in 1..Len(out.members) |-> out.members[i].name]

\* getmember returning the first member of that name instead of the last
getmember_First(out, name) ==
    LET hits == {i \in 1..Len(out.members) : out.members[i].name = name}
    IN  out.members[CHOOSE i \in hits : \A j \in hits : i <= j]

\* TarFile.getmember: the last member of that name
getmember(out, name) ==
    LET hits == {i \in 1..Len(out.members) : out.members[i].name = name}
    IN  out.members[CHOOSE i \in hits : \A j \in hits : j <= i]

issym(member) == member.type = "SYM"

isfile(member) == member.type = "REG"

\* list.remove: drops the first occurrence
RECURSIVE remove(_, _)
remove(list, v) ==
    IF list = <<>> THEN <<>>
    ELSE IF Head(list) = v THEN Tail(list)
    ELSE <<Head(list)>> \o remove(Tail(list), v)

Contains(list, v) == \E i \in 1..Len(list) : list[i] = v

(***************************************************************************)
(* The arguments the calls are made with.                                  *)
(***************************************************************************)
Member(name, type, data) == [name |-> name, type |-> type, data |-> data]

\* members of the enumerated archives: reserved and ordinary names, as regular
\* files, symbolic links and directories
MemberPool ==
    { Member(METADATA, "REG", <<Ch.a, Ch.comma, Ch.b, Ch.comma, Ch.c, Ch.lf,
                                 Ch.d, Ch.comma, Ch.a>>),            \* a,b,c\nd,a
      Member(METADATA, "REG", <<Ch.a, Ch.comma, Ch.b, Ch.lf, Ch.c, Ch.lf>>), \* a,b\nc\n
      Member(METADATA, "SYM", <<>>),
      Member(TEXT, "REG", <<Ch.h, 195, 169, Ch.cr, Ch.lf>>),        \* "hé\r\n" in UTF-8
      Member(TEXT, "REG", <<Ch.h, 255>>),                           \* not UTF-8
      Member(TEXT, "SYM", <<>>),
      Member("a", "REG", <<Ch.nul, 255, Ch.cr>>),
      Member("a", "SYM", <<>>),
      Member("d", "DIR", <<>>),
      Member("b", "REG", <<>>) }

\* members of the enumerated archives whose stream ends badly
BrokenPool ==
    { Member(METADATA, "REG", <<Ch.a, Ch.comma, Ch.b>>),
      Member("a", "REG", <<Ch.nul, 255, Ch.cr>>) }

RECURSIVE SeqsUpTo(_, _)
SeqsUpTo(S, len) ==
    IF len = 0 THEN {<<>>}
    ELSE LET shorter == SeqsUpTo(S, len - 1)
         IN  shorter \cup {Append(s, e) : s \in shorter, e \in S}

MetaChars == {Ch.nul, Ch.lf, Ch.quote, Ch.comma, Ch.backslash, Ch.a, Ch.n}

TarBytes(members, tail) ==
    [pair |-> TRUE, kind |-> "tar", members |-> members, tail |-> tail]

NoOutput == [pair |-> FALSE, kind |-> "none", members |-> <<>>, tail |-> "eof"]

TarOutputs ==
    \* None or (), (status, None), (status, b"")
    {NoOutput,
     [pair |-> TRUE, kind |-> "none", members |-> <<>>, tail |-> "eof"],
     [pair |-> TRUE, kind |-> "empty", members |-> <<>>, tail |-> "eof"]}
    \cup {TarBytes(ms, "eof") : ms \in SeqsUpTo(MemberPool, MaxMembers)}
    \cup {TarBytes(ms, "garbage") : ms \in SeqsUpTo(BrokenPool, MaxMembers)}
    \cup {TarBytes(ms, "truncated") : ms \in SeqsUpTo(BrokenPool, MaxMembers) \ {<<>>}}
    \cup {TarBytes(<<Member(METADATA, "REG", s)>>, "eof") :
             s \in StringsUpTo(MetaChars, MaxMetaLen)}

(***************************************************************************)
(* _parse (lines 87-142).                                                  *)
(***************************************************************************)
NotReturned == [returned |-> FALSE, value |-> EmptyDict]

Returned(value) == [returned |-> TRUE, value |-> value]

ParseLocalsIdle ==
    /\ tarFile = "none"
    /\ memberNames = <<>>
    /\ metadataReader = <<>>
    /\ metadata = EmptyDict
    /\ content = <<>>
    /\ attachments = EmptyDict
    /\ idx = 0
    /\ parsed = NotReturned
    /\ exc = "none"

NoArg == <<-1>>

NoResult == [ok |-> FALSE, val |-> NoArg]

InitParse ==
    /\ pc = "call"
    /\ tarOutput \in TarOutputs
    /\ ParseLocalsIdle
    /\ x = NoArg /\ escaped = NoArg /\ unescaped = NoResult

\* "not tarOutput", "tarOutput[1] is None", "tarOutput[1] == b''" (lines 89-91)
IsEmptyOutput(out) == ~out.pair \/ out.kind = "none" \/ out.kind = "empty"

Raise(name) ==
    /\ pc' = "raised"
    /\ exc' = name

\* lines 88-92: the short circuit returns the dict of line 88 as it is
ParseEmpty ==
    /\ pc = "call"
    /\ IsEmptyOutput(tarOutput)
    /\ parsed' = Returned(EmptyDict)
    /\ pc' = "returned"
    /\ UNCHANGED <<tarOutput, tarFile, memberNames, metadataReader, metadata, content,
                   attachments, idx, exc>>
    /\ UNCHANGED codecVars

\* line 94
TarOpen ==
    /\ pc = "call"
    /\ ~IsEmptyOutput(tarOutput)
    /\ IF OpenFails(tarOutput)
       THEN Raise("ReadError") /\ UNCHANGED tarFile
       ELSE pc' = "getnames" /\ tarFile' = "open" /\ UNCHANGED exc
    /\ UNCHANGED <<tarOutput, memberNames, metadataReader, metadata, content,
                   attachments, idx, parsed>>
    /\ UNCHANGED codecVars

\* lines 96-97
GetNames ==
    /\ pc = "getnames"
    /\ IF GetNamesFails(tarOutput)
       THEN Raise("ReadError") /\ UNCHANGED memberNames
       ELSE pc' = "metadata" /\ memberNames' = getnames(tarOutput) /\ UNCHANGED exc
    /\ UNCHANGED <<tarOutput, tarFile, metadataReader, metadata, content,
                   attachments, idx, parsed>>
    /\ UNCHANGED codecVars

\* lines 99-107: the reader is created over the member's lines, nothing is read yet
ExtractMetadata ==
    /\ pc = "metadata"
    /\ IF Contains(memberNames, METADATA)
       THEN /\ memberNames' = remove(memberNames, METADATA)
            /\ LET metadataMember == getmember(tarOutput, METADATA) IN
               IF ~issym(metadataMember) /\ isfile(metadataMember)
               THEN pc' = "row" /\ metadataReader' = TextLines(metadataMember.data)
               ELSE pc' = "content" /\ UNCHANGED metadataReader
       ELSE pc' = "content" /\ UNCHANGED <<memberNames, metadataReader>>
    /\ UNCHANGED <<tarOutput, tarFile, metadata, content, attachments, idx, parsed, exc>>
    /\ UNCHANGED codecVars

\* MetadataValue keeping the slice metadataLine[1:] whatever its length
MetadataValue_AlwaysList(metadataLine) ==
    [list |-> TRUE, v |-> SubSeq(metadataLine, 2, Len(metadataLine))]

\* lines 114-117: a value is [list, v]; a scalar is held as the one element of v
MetadataValue(metadataLine) ==
    IF Len(metadataLine) > 2
    THEN [list |-> TRUE, v |-> SubSeq(metadataLine, 2, Len(metadataLine))]
    ELSE [list |-> FALSE, v |-> <<metadataLine[2]>>]

\* line 112; with assertions compiled out (python -O) line 117 raises IndexError
RowTooShort(metadataLine) == Len(metadataLine) < 2

\* MetadataRow with a short row skipped instead of asserted on
MetadataRow_SkipShort ==
    /\ pc = "row"
    /\ LET next == wrapped_csv(metadataReader) IN
       /\ next.kind # "stop"
       /\ IF next.kind = "error"
          THEN Raise("csv.Error") /\ UNCHANGED <<metadata, metadataReader>>
          ELSE IF RowTooShort(next.row)
          THEN /\ metadataReader' = next.rest
               /\ UNCHANGED <<metadata, pc, exc>>
          ELSE /\ metadata' = DictSet(metadata, next.row[1], MetadataValue(next.row))
               /\ metadataReader' = next.rest
               /\ UNCHANGED <<pc, exc>>
    /\ UNCHANGED <<tarOutput, tarFile, memberNames, content, attachments, idx, parsed>>
    /\ UNCHANGED codecVars

\* lines 108-117: one iteration of the loop over the reader
MetadataRow ==
    /\ pc = "row"
    /\ LET next == wrapped_csv(metadataReader) IN
       /\ next.kind # "stop"
       /\ IF next.kind = "error"
          THEN Raise("csv.Error") /\ UNCHANGED <<metadata, metadataReader>>
          ELSE IF RowTooShort(next.row)
          THEN /\ \E e \in {"AssertionError", "IndexError"} : Raise(e)
               /\ metadataReader' = next.rest
               /\ UNCHANGED metadata
          ELSE /\ metadata' = DictSet(metadata, next.row[1], MetadataValue(next.row))
               /\ metadataReader' = next.rest
               /\ UNCHANGED <<pc, exc>>
    /\ UNCHANGED <<tarOutput, tarFile, memberNames, content, attachments, idx, parsed>>
    /\ UNCHANGED codecVars

\* line 108: the reader is exhausted
MetadataDone ==
    /\ pc = "row"
    /\ wrapped_csv(metadataReader).kind = "stop"
    /\ pc' = "content"
    /\ UNCHANGED <<tarOutput, tarFile, memberNames, metadataReader, metadata, content,
                   attachments, idx, parsed, exc>>
    /\ UNCHANGED codecVars

\* lines 119-129
ExtractContent ==
    /\ pc = "content"
    /\ IF Contains(memberNames, TEXT)
       THEN /\ memberNames' = remove(memberNames, TEXT)
            /\ LET contentMember == getmember(tarOutput, TEXT) IN
               IF ~issym(contentMember) /\ isfile(contentMember)
               THEN LET text == ReadText(contentMember.data) IN
                    IF text.ok
                    THEN pc' = "attachments" /\ content' = text.val /\ UNCHANGED exc
                    ELSE Raise("UnicodeDecodeError") /\ UNCHANGED content
               ELSE pc' = "attachments" /\ UNCHANGED <<content, exc>>
       ELSE pc' = "attachments" /\ UNCHANGED <<memberNames, content, exc>>
    /\ idx' = 1
    /\ UNCHANGED <<tarOutput, tarFile, metadataReader, metadata, attachments, parsed>>
    /\ UNCHANGED codecVars

\* Attachment without the test of line 135
Attachment_NoTypeCheck ==
    /\ pc = "attachments"
    /\ idx <= Len(memberNames)
    /\ LET attachment == memberNames[idx]
           attachmentMember == getmember(tarOutput, attachment)
       IN  attachments' = DictSet(attachments, attachment, attachmentMember.data)
    /\ idx' = idx + 1
    /\ UNCHANGED <<pc, tarOutput, tarFile, memberNames, metadataReader, metadata, content,
                   parsed, exc>>
    /\ UNCHANGED codecVars

\* lines 133-136: one iteration of the loop over the remaining names
Attachment ==
    /\ pc = "attachments"
    /\ idx <= Len(memberNames)
    /\ LET attachment == memberNames[idx]
           attachmentMember == getmember(tarOutput, attachment)
       IN  IF ~issym(attachmentMember) /\ isfile(attachmentMember)
           THEN attachments' = DictSet(attachments, attachment, attachmentMember.data)
           ELSE UNCHANGED attachments
    /\ idx' = idx + 1
    /\ UNCHANGED <<pc, tarOutput, tarFile, memberNames, metadataReader, metadata, content,
                   parsed, exc>>
    /\ UNCHANGED codecVars

\* lines 138-142
ParsedResult(c, m, a) == [content |-> c, metadata |-> m, attachments |-> a]

Return ==
    /\ pc = "attachments"
    /\ idx > Len(memberNames)
    /\ parsed' = Returned(ParsedResult(content, metadata, attachments))
    /\ pc' = "returned"
    /\ UNCHANGED <<tarOutput, tarFile, memberNames, metadataReader, metadata, content,
                   attachments, idx, exc>>
    /\ UNCHANGED codecVars

(***************************************************************************)
(* The escape pair called directly on a string.                            *)
(***************************************************************************)
CodecChars == {Ch.nul, Ch.lf, Ch.backslash, Ch.n, Ch.x, Ch.zero, Ch.a, Ch.eacute,
               Ch.ethiopic}

InitCodec ==
    /\ pc = "encode"
    /\ x \in StringsUpTo(CodecChars, MaxStrLen)
    /\ escaped = NoArg
    /\ unescaped = NoResult
    /\ tarOutput = NoOutput
    /\ ParseLocalsIdle

CsvEncode ==
    /\ pc = "encode"
    /\ escaped' = csv_encode(x)
    /\ pc' = "decode"
    /\ UNCHANGED <<x, unescaped>>
    /\ UNCHANGED parseVars

CsvDecode ==
    /\ pc = "decode"
    /\ unescaped' = csv_decode(escaped)
    /\ pc' = "codec_done"
    /\ UNCHANGED <<x, escaped>>
    /\ UNCHANGED parseVars

Init == InitParse \/ InitCodec

Next ==
    \/ ParseEmpty
    \/ TarOpen
    \/ GetNames
    \/ ExtractMetadata
    \/ MetadataRow
    \/ MetadataDone
    \/ ExtractContent
    \/ Attachment
    \/ Return
    \/ CsvEncode
    \/ CsvDecode

Spec == Init /\ [][Next]_vars

(***************************************************************************)
(* Vocabulary of the properties: what the archive holds, stated without    *)
(* the operators of the decoder.                                           *)
(***************************************************************************)
Terminal == pc \in {"returned", "raised"}

ThreeFields == {"content", "metadata", "attachments"}

ReturnedRecord == pc = "returned" /\ DOMAIN parsed.value = ThreeFields

Range(s) == {s[i] : i \in 1..Len(s)}

HasMember(out, name) == \E i \in 1..Len(out.members) : out.members[i].name = name

\* the member a name refers to: the last one of that name in the archive
Resolve(out, name) ==
    LET last == CHOOSE i \in 1..Len(out.members) :
                    /\ out.members[i].name = name
                    /\ \A j \in (i + 1)..Len(out.members) : out.members[j].name # name
    IN  out.members[last]

RegularMember(out, name) == HasMember(out, name) /\ Resolve(out, name).type = "REG"

SkippedMember(out, name) == HasMember(out, name) /\ Resolve(out, name).type # "REG"

\* every row the reader yields over the lines, up to its end
RECURSIVE RowsOf(_)
RowsOf(lines) ==
    LET next == wrapped_csv(lines)
    IN  IF next.kind # "row" THEN <<>> ELSE <<next.row>> \o RowsOf(next.rest)

MetadataRows(out) ==
    IF RegularMember(out, METADATA)
    THEN RowsOf(TextLines(Resolve(out, METADATA).data))
    ELSE <<>>

Scalar(v) == [list |-> FALSE, v |-> <<v>>]

Sequence(vs) == [list |-> TRUE, v |-> vs]

RECURSIVE FoldRows(_, _)
FoldRows(rows, dict) ==
    IF rows = <<>> THEN dict
    ELSE LET row == Head(rows)
             value == IF Len(row) = 2 THEN Scalar(row[2]) ELSE Sequence(Tail(row))
         IN  FoldRows(Tail(rows), DictSet(dict, row[1], value))

ReservedOnly(out) ==
    [out EXCEPT !.members = SelectSeq(out.members,
                                      LAMBDA m : m.name \in {METADATA, TEXT})]

ContentOf(out) ==
    IF RegularMember(out, TEXT) THEN ReadText(Resolve(out, TEXT).data).val ELSE <<>>

\* the fields of a line that holds no quote: the text between its commas
RECURSIVE SplitComma(_, _)
SplitComma(s, field) ==
    IF s = <<>> THEN <<field>>
    ELSE IF Head(s) = Ch.comma THEN <<field>> \o SplitComma(Tail(s), <<>>)
    ELSE SplitComma(Tail(s), Append(field, Head(s)))

StripTerminator(line) ==
    IF line # <<>> /\ line[Len(line)] = Ch.lf THEN SubSeq(line, 1, Len(line) - 1) ELSE line

FieldsOf(line) == SplitComma(StripTerminator(line), <<>>)

(***************************************************************************)
(* C1: a call whose response is absent, zero-length, or whose pair is      *)
(* missing returns a record with all three fields at their defaults        *)
(* (content "", metadata {}, attachments {}), opens no archive and raises  *)
(* nothing.                                                                *)
(***************************************************************************)
C1_EmptyResponseGivesDefaults ==
    (Terminal /\ IsEmptyOutput(tarOutput)) =>
        /\ pc = "returned"
        /\ tarFile = "none"
        /\ DOMAIN parsed.value = ThreeFields
        /\ parsed.value = ParsedResult(<<>>, EmptyDict, EmptyDict)

(***************************************************************************)
(* C2: a row [key, v1, ..., vn] of a regular-file __METADATA__ sets        *)
(* metadata[key] to the scalar v1 when n = 1 and to the sequence           *)
(* [v1, ..., vn] in row order when n > 1; nothing but n decides which.     *)
(***************************************************************************)
C2_RowArityDecidesValue ==
    [][(pc = "row" /\ pc' = "row") =>
          LET row == wrapped_csv(metadataReader).row IN
          /\ Len(row) >= 2
          /\ row[1] \in DOMAIN metadata'
          /\ (Len(row) = 2 => metadata'[row[1]] = Scalar(row[2]))
          /\ (Len(row) > 2 => metadata'[row[1]] = Sequence(Tail(row)))
          /\ \A k \in (DOMAIN metadata') \ {row[1]} :
                k \in DOMAIN metadata /\ metadata'[k] = metadata[k]]_vars

C2_Witness ==
    /\ pc = "row"
    /\ \E k \in DOMAIN metadata : metadata[k].list /\ Len(metadata[k].v) = 2
    /\ \E k \in DOMAIN metadata : ~metadata[k].list

(***************************************************************************)
(* C3: every value stored in metadata is exactly the text of its CSV       *)
(* field: escaping and unescaping add or remove no character, and the line *)
(* terminator is never part of the last value of its row.  Stated for a    *)
(* __METADATA__ without quotes or carriage returns, where the fields of a  *)
(* line are the text between its commas.                                   *)
(***************************************************************************)
C3_ValuesAreFieldText ==
    (/\ ReturnedRecord
     /\ RegularMember(tarOutput, METADATA)
     /\ Range(Resolve(tarOutput, METADATA).data) \cap {Ch.quote, Ch.cr} = {}) =>
        LET lines == SplitLines(Resolve(tarOutput, METADATA).data, <<>>) IN
        \A k \in DOMAIN metadata :
            \E i \in 1..Len(lines) :
                /\ Len(FieldsOf(lines[i])) >= 2
                /\ FieldsOf(lines[i])[1] = k
                /\ metadata[k].v = Tail(FieldsOf(lines[i]))

(***************************************************************************)
(* C4: _csv_decode(_csv_encode(s)) = s for every string s, the empty one   *)
(* and those with nulls, backslashes, newlines and other control           *)
(* characters included, and _csv_encode(s) holds no raw null character.    *)
(***************************************************************************)
C4_EscapeRoundTrip ==
    /\ (pc \in {"decode", "codec_done"} =>
            /\ Ch.nul \notin Range(escaped)
            /\ \A i \in 1..Len(escaped) : escaped[i] >= 32 /\ escaped[i] < 127)
    /\ (pc = "codec_done" => unescaped = [ok |-> TRUE, val |-> x])

C4_Witness ==
    /\ pc = "codec_done"
    /\ {Ch.nul, Ch.backslash, Ch.n} \subseteq Range(x)
    /\ unescaped.val = x

(***************************************************************************)
(* C5: after a successful decode, every member name other than             *)
(* __METADATA__ and __TEXT__ is a key of attachments exactly when it       *)
(* refers to a regular file, and its value is that member's bytes          *)
(* unchanged; directories and symbolic links give no key and no error; and *)
(* content and metadata are those of the archive without its attachment    *)
(* members.                                                                *)
(***************************************************************************)
C5_AttachmentsAreRegularFiles ==
    ReturnedRecord =>
        /\ \A i \in 1..Len(tarOutput.members) :
              LET name == tarOutput.members[i].name IN
              name \notin {METADATA, TEXT} =>
                  /\ name \in DOMAIN parsed.value.attachments
                        <=> Resolve(tarOutput, name).type = "REG"
                  /\ name \in DOMAIN parsed.value.attachments
                        => parsed.value.attachments[name] = Resolve(tarOutput, name).data
        /\ parsed.value.content = ContentOf(ReservedOnly(tarOutput))
        /\ parsed.value.metadata = FoldRows(MetadataRows(ReservedOnly(tarOutput)), EmptyDict)

C5_Witness ==
    /\ ReturnedRecord
    /\ DOMAIN parsed.value.attachments = {"a"}
    /\ parsed.value.attachments["a"] = <<Ch.nul, 255, Ch.cr>>
    /\ HasMember(tarOutput, "d")
    /\ parsed.value.content # <<>>

AnyShort(rows) == \E i \in 1..Len(rows) : Len(rows[i]) < 2

HasShortRow(out) == AnyShort(MetadataRows(out))

C7_ShortRowIsFatal ==
    HasShortRow(tarOutput) =>
        /\ pc \in {"call", "getnames", "metadata", "row", "raised"}
        /\ ~parsed.returned
        /\ (pc = "raised" /\ tarOutput.tail = "eof" =>
                exc \in {"AssertionError", "IndexError"})
        /\ (pc = "row" => AnyShort(RowsOf(metadataReader)))

C7_Witness ==
    /\ pc = "raised"
    /\ exc = "AssertionError"
    /\ metadata # EmptyDict
    /\ RegularMember(tarOutput, TEXT)
    /\ RegularMember(tarOutput, "a")

(***************************************************************************)
(* C8: the decode is all or nothing: response bytes that are no valid tar  *)
(* stream, or a regular-file __TEXT__ that is not UTF-8, end the call in   *)
(* an error and nothing is returned; every call either returns a complete  *)
(* three-field record or raises.                                           *)
(***************************************************************************)
C8_AllOrNothing ==
    /\ Terminal => (pc = "raised" \/ DOMAIN parsed.value = ThreeFields)
    /\ (tarOutput.kind = "tar" /\ tarOutput.tail # "eof") => ~parsed.returned
    /\ (/\ RegularMember(tarOutput, TEXT)
        /\ ~Utf8Decode(Resolve(tarOutput, TEXT).data).ok) => ~parsed.returned
    /\ pc = "raised" => ~parsed.returned

(***************************************************************************)
(* C9: the archive reader a call opens is closed before the call ends, on  *)
(* the normal return and on every error path.                              *)
(***************************************************************************)
C9_ReaderReleased == Terminal => tarFile # "open"

(***************************************************************************)
(* C10: after a successful decode attachments has neither the key          *)
(* __METADATA__ nor the key __TEXT__, also when the archive holds more     *)
(* than one entry of a reserved name.                                      *)
(***************************************************************************)
C10_NoReservedAttachment ==
    ReturnedRecord =>
        /\ METADATA \notin DOMAIN parsed.value.attachments
        /\ TEXT \notin DOMAIN parsed.value.attachments
====
